---- MODULE Spec2Model ----
(***************************************************************************)
(* Model of the Zoom integration of momentum_backend:                      *)
(*   services/zoom_service.py  ZoomRateLimiter, ZoomService,               *)
(*                             ZoomCredentialService                       *)
(*                                                                         *)
(* Time is an integer count of 10 ms units (time.time() / datetime.utcnow()*)
(* read as one non-decreasing clock): 0.02 s = 2, 60 s = 6000,             *)
(* 3600 s = 360000.  asyncio.sleep(d) returns no earlier than d after it   *)
(* was called.                                                             *)
(***************************************************************************)
EXTENDS Integers, Sequences, FiniteSets, TLC

\* ------------------------------------------------------------------ bounds
MaxTicks == 2        \* clock advances by the environment
MaxCalls == 2        \* public-method calls made by one caller
MaxRetries == 2      \* HTTP 429 answers the provider gives to one request
MaxIssued == 2       \* token responses the provider issues
StartTime == 500000  \* the clock when the process starts
MaxLen == 3          \* characters of a meeting id

\* ------------------------------------------------------- program constants
MinInterval == 2     \* 0.02 s, 50 requests per second
CoolDown == 6000     \* asyncio.sleep(60)
HourWindow == 360000 \* current_time + 3600
NoExpiry == -1       \* a credential row without expires_at

Procs == {1, 2}
SeqProcs == {1}
Users == {1}
Services == {1, 2, 3, 4}
TickSet == {1, HourWindow}
ExpiresInSet == {1, 3}
Statuses == {200, 201, 400, 401, 429}
Bodies == {7, 8}

HandlerSvc(p) == p
RefreshSvc(p) == 2 + p

Max(a, b) == IF a >= b THEN a ELSE b

AccessTok(n) == 10 + n
RefreshTok(n) == 20 + n

VARIABLES
  now,      \* the clock
  ticks,    \* clock advances so far
  rl,       \* per ZoomService instance: its ZoomRateLimiter
  store,    \* zoom_credentials table: user_id -> row or NoCred
  issued,   \* token responses issued by the provider so far
  pc,       \* per caller: where it is
  op,       \* per caller: the public method it called last
  svc,      \* per caller: the ZoomService instance in use
  req,      \* per caller: the HTTP request of the method
  wake,     \* per caller: when its pending sleep is over
  result,   \* per caller: what the last call returned or raised
  calls,    \* per caller: public-method calls started
  log,      \* per caller: events of the call in progress
  rets,     \* per service: the last two times wait_if_needed returned
  gv,       \* per caller: locals of get_valid_access_token
  rows,     \* zoom_credentials table: user_id -> number of rows held
  route,    \* per caller: the route handler it runs and what it did
  waited,   \* per caller: when its last wait_if_needed was entered and left
  uuid      \* per caller: meeting_uuid and encoded_uuid of get_meeting_participants

vars == <<now, ticks, rl, store, issued, pc, op, svc, req, wake,
          result, calls, log, rets, gv, rows, route, waited, uuid>>

\* ------------------------------------------------------------ ZoomRateLimiter
NewLimiter == [last_call |-> 0, call_count |-> 0, reset_time |-> 0]

\* RLReset with "current_time >= self.reset_time".
RLResetAtDeadline(l, t) ==
  IF t >= l.reset_time
  THEN [l EXCEPT !.call_count = 0, !.reset_time = t + HourWindow]
  ELSE l

RLReset(l, t) ==
  IF t > l.reset_time
  THEN [l EXCEPT !.call_count = 0, !.reset_time = t + HourWindow]
  ELSE l

RLTimeSinceLast(l, t) == t - l.last_call

RLNeedSleep(l, t) == RLTimeSinceLast(l, t) < MinInterval

\* RLSleepFor with "asyncio.sleep(time_since_last)".
RLSleepForElapsed(l, t) == RLTimeSinceLast(l, t)

RLSleepFor(l, t) == MinInterval - RLTimeSinceLast(l, t)

RLStamp(l, t) == [l EXCEPT !.last_call = t, !.call_count = @ + 1]

\* ------------------------------------------------------------------ results
TokenData(n, e) == [access_token |-> AccessTok(n), refresh_token |-> RefreshTok(n), expires_in |-> e]
NoTokenData == [access_token |-> 0, refresh_token |-> 0, expires_in |-> 0]

\* What a call returned or raised.  val: the body returned, or the message of
\* the error; tokens: the parsed token response.
NoResult == [kind |-> "none", status |-> 0, code |-> "", val |-> 0, tokens |-> NoTokenData]
Ok(v) == [kind |-> "ok", status |-> 0, code |-> "", val |-> v, tokens |-> NoTokenData]
OkTokens(td) == [kind |-> "ok", status |-> 0, code |-> "", val |-> 0, tokens |-> td]
ZoomAPIError(st, c, m) == [kind |-> "error", status |-> st, code |-> c, val |-> m, tokens |-> NoTokenData]
Raised == [kind |-> "exception", status |-> 0, code |-> "transport", val |-> 0, tokens |-> NoTokenData]

NoReq == [method |-> "", endpoint |-> "", auth |-> 0, params |-> 0, data |-> 0, grant_type |-> ""]

\* ------------------------------------------------------------------ provider
NetError == [status |-> 0, json |-> FALSE, body |-> 0]
Responses ==
  [status : {s \in Statuses : s < 400}, json : {TRUE}, body : Bodies]
  \cup [status : {s \in Statuses : s >= 400 /\ s # 429}, json : BOOLEAN, body : {9}]
  \cup [status : {429}, json : {TRUE}, body : {9}]
  \cup {NetError}
\* Answers of the token endpoint: the tokens with their expires_in, a
\* rejection, or no answer.
TokenResponses ==
  [status : {200}, json : {TRUE}, body : ExpiresInSet]
  \cup [status : {400, 401, 429}, json : {TRUE}, body : {9}]
  \cup {NetError}

\* The message of an error answered with a JSON body, and with any other body.
JsonMessage(b) == 100 + b
RawText(b) == b

\* Events of one call: a completed wait_if_needed, an HTTP request sent, the
\* provider's answer to it, an asyncio.sleep(d) after a 429.
NoResp == [status |-> 1, json |-> FALSE, body |-> 0]
EvWait == [ev |-> "wait", r |-> NoReq, d |-> 0, resp |-> NoResp]
EvHttp(r) == [ev |-> "http", r |-> r, d |-> 0, resp |-> NoResp]
EvResp(x) == [ev |-> "resp", r |-> NoReq, d |-> 0, resp |-> x]
EvCool(d) == [ev |-> "cool", r |-> NoReq, d |-> d, resp |-> NoResp]

RECURSIVE CountEv(_, _)
CountEv(s, e) ==
  IF s = <<>> THEN 0
  ELSE (IF Head(s).ev = e THEN 1 ELSE 0) + CountEv(Tail(s), e)

\* ---------------------------------------------------------------- the store
\* A row of zoom_credentials; NoCred: no row (get_credentials gives None).
NoCred == [present |-> FALSE, access_token |-> 0, refresh_token |-> 0,
           expires_at |-> 0, zoom_user_id |-> 0, zoom_email |-> 0,
           created_at |-> 0, updated_at |-> 0]

\* A row written before the process started that carries no expires_at.
LegacyCred == [present |-> TRUE, access_token |-> AccessTok(0),
               refresh_token |-> RefreshTok(0), expires_at |-> NoExpiry,
               zoom_user_id |-> 1, zoom_email |-> 1,
               created_at |-> 0, updated_at |-> 0]

\* Locals of get_valid_access_token (user, credentials, token_data) and what
\* the call did: pre, the row when the call started; read1, read2, whether
\* the store answered its two reads; checkedAt, the clock at the expiry
\* check; expired, what the check said; wrote, whether update_tokens changed
\* the row; writeOk, whether the store accepted the write of update_tokens;
\* updatedAt, the clock when update_tokens ran; built, whether ZoomService()
\* was constructed; checked, what the read inside is_token_expired gave.
NoGv == [user |-> 0, credentials |-> NoCred, token_data |-> NoTokenData,
         pre |-> NoCred, checkedAt |-> 0, expired |-> FALSE,
         read1 |-> FALSE, read2 |-> FALSE, wrote |-> FALSE, writeOk |-> FALSE,
         updatedAt |-> 0, built |-> FALSE, checked |-> NoCred]

\* What a route handler did: handler, its name; made, the service calls it
\* has completed; status, detail, msg, the HTTP response it sent (status 0:
\* none yet); cause, what the service call that ended it returned or raised;
\* tokens, the token_data of handle_zoom_auth_callback.
NoRoute == [handler |-> "none", made |-> <<>>, status |-> 0, detail |-> "",
            msg |-> 0, cause |-> NoResult, tokens |-> NoTokenData]

\* A call of wait_if_needed: entered, the clock when it was entered;
\* returned, the clock when it returned (0: it has not).
NoWait == [entered |-> 0, returned |-> 0]

\* The locals of get_meeting_participants, as sequences of characters.
NoUuid == [meeting_uuid |-> <<>>, encoded_uuid |-> <<>>]

\* ---------------------------------------------------------------------- Init
InitBase ==
  /\ now = StartTime
  /\ ticks = 0
  /\ rl = [s \in Services |-> NewLimiter]
  /\ issued = 0
  /\ pc = [p \in Procs |-> "idle"]
  /\ op = [p \in Procs |-> "none"]
  /\ svc = [p \in Procs |-> HandlerSvc(p)]
  /\ req = [p \in Procs |-> NoReq]
  /\ wake = [p \in Procs |-> 0]
  /\ result = [p \in Procs |-> NoResult]
  /\ calls = [p \in Procs |-> 0]
  /\ log = [p \in Procs |-> <<>>]
  /\ rets = [s \in Services |-> <<>>]
  /\ gv = [p \in Procs |-> NoGv]
  /\ route = [p \in Procs |-> NoRoute]
  /\ waited = [p \in Procs |-> NoWait]

Init ==
  /\ InitBase
  /\ store = [u \in Users |-> NoCred]
  /\ rows = [u \in Users |-> 0]
  /\ uuid = [p \in Procs |-> NoUuid]

\* --------------------------------------------------------------------- clock
\* Time passes while every caller is suspended (awaiting a response, asleep,
\* or between calls); the code between two suspension points takes no time.
Suspended(p) == pc[p] \in {"idle", "done", "recv", "sleep", "cooldown"}

Tick ==
  /\ ticks < MaxTicks
  /\ \A p \in Procs : Suspended(p)
  /\ \E d \in TickSet : now' = now + d
  /\ ticks' = ticks + 1
  /\ UNCHANGED <<rl, store, issued, pc, op, svc, req, wake, result,
                 calls, log, rets, gv, rows, route, waited, uuid>>

KeepLast2(s, t) == IF Len(s) < 2 THEN Append(s, t) ELSE <<s[2], t>>

\* ZoomRateLimiter.wait_if_needed up to its sleep, or to its end when it does
\* not sleep.
wait_if_needed(p) ==
  /\ pc[p] = "wait"
  /\ LET s == svc[p]
         current_time == now
         l1 == RLReset(rl[s], current_time)
     IN IF RLNeedSleep(l1, current_time)
        THEN /\ rl' = [rl EXCEPT ![s] = l1]
             /\ wake' = [wake EXCEPT ![p] = current_time + RLSleepFor(l1, current_time)]
             /\ pc' = [pc EXCEPT ![p] = "sleep"]
             /\ waited' = [waited EXCEPT ![p] = [entered |-> current_time, returned |-> 0]]
             /\ UNCHANGED <<now, log, rets>>
        ELSE /\ rl' = [rl EXCEPT ![s] = RLStamp(l1, now)]
             /\ pc' = [pc EXCEPT ![p] = "send"]
             /\ log' = [log EXCEPT ![p] = Append(@, EvWait)]
             /\ rets' = [rets EXCEPT ![s] = KeepLast2(@, now)]
             /\ waited' = [waited EXCEPT ![p] = [entered |-> current_time, returned |-> now]]
             /\ UNCHANGED <<now, wake>>
  /\ UNCHANGED <<ticks, uuid, store, issued, op, svc, req, result, calls, gv,
                 rows, route>>

\* The rest of wait_if_needed once asyncio.sleep has returned.
wait_wake(p) ==
  /\ pc[p] = "sleep"
  /\ LET s == svc[p]
     IN /\ now' = Max(now, wake[p])
        /\ rl' = [rl EXCEPT ![s] = RLStamp(rl[s], now')]
        /\ rets' = [rets EXCEPT ![s] = KeepLast2(@, now')]
  /\ pc' = [pc EXCEPT ![p] = "send"]
  /\ log' = [log EXCEPT ![p] = Append(@, EvWait)]
  /\ waited' = [waited EXCEPT ![p].returned = now']
  /\ UNCHANGED <<ticks, uuid, store, issued, op, svc, req, wake, result, calls, gv,
                 rows, route>>

\* The HTTP request leaves (client.post / client.request / client.get).
http_send(p) ==
  /\ pc[p] = "send"
  /\ pc' = [pc EXCEPT ![p] = "recv"]
  /\ log' = [log EXCEPT ![p] = Append(@, EvHttp(req[p]))]
  /\ UNCHANGED <<now, ticks, waited, uuid, rl, store, issued, op, svc, req, wake,
                 result, calls, rets, gv, rows, route>>

\* ------------------------------------------------------------- ZoomService
Idle(p) == pc[p] \in {"idle", "done"} /\ calls[p] < MaxCalls

\* A public method of the ZoomService instance s is called.
BeginOn(p, o, r, s) ==
  /\ op' = [op EXCEPT ![p] = o]
  /\ svc' = [svc EXCEPT ![p] = s]
  /\ req' = [req EXCEPT ![p] = r]
  /\ pc' = [pc EXCEPT ![p] = "wait"]
  /\ log' = [log EXCEPT ![p] = <<>>]
  /\ result' = [result EXCEPT ![p] = NoResult]
  /\ calls' = [calls EXCEPT ![p] = @ + 1]
  /\ gv' = [gv EXCEPT ![p] = NoGv]
  /\ UNCHANGED <<now, ticks, waited, store, issued, wake, rows>>

Begin(p, o, r) ==
  /\ BeginOn(p, o, r, HandlerSvc(p))
  /\ UNCHANGED uuid

TokenReq(grant, v) ==
  [method |-> "POST", endpoint |-> "/oauth/token", auth |-> 0, params |-> 0, data |-> v]
  @@ [grant_type |-> grant]

exchange_code_for_tokens(p) ==
  /\ Idle(p)
  /\ \E code \in {1} : Begin(p, "exchange", TokenReq("authorization_code", code))
  /\ UNCHANGED <<rl, rets, route>>

refresh_access_token(p) ==
  /\ Idle(p)
  /\ \E rt \in {RefreshTok(1)} :
       Begin(p, "refresh", TokenReq("refresh_token", rt))
  /\ UNCHANGED <<rl, rets, route>>

ApiReq(m, e, tok, q, j) ==
  [method |-> m, endpoint |-> e, auth |-> tok, params |-> q, data |-> j]
  @@ [grant_type |-> ""]

make_authenticated_request(p) ==
  /\ Idle(p)
  /\ \E e \in {"/users/me", "/users/me/recordings"}, tok \in {AccessTok(1)} :
       Begin(p, "api", ApiReq("GET", e, tok, IF e = "/users/me" THEN 0 ELSE 1, 0))
  /\ UNCHANGED <<rl, rets, route>>

download_recording_file(p) ==
  /\ Idle(p)
  /\ \E url \in {"https://zoom.us/rec/download/1"}, tok \in {AccessTok(1)} :
       Begin(p, "download", ApiReq("GET", url, tok, 0, 0))
  /\ UNCHANGED <<rl, rets, route>>

Finish(p, res) ==
  /\ result' = [result EXCEPT ![p] = res]
  /\ pc' = [pc EXCEPT ![p] = IF op[p] = "gvat" THEN "gv_refreshed" ELSE "done"]

\* TokenOutcome with a 401 marked as _make_authenticated_request marks it.
TokenOutcomeTokenExpired(r, n) ==
  IF r = NetError THEN Raised
  ELSE IF r.status = 401 THEN ZoomAPIError(401, "token_expired", 0)
  ELSE IF r.status # 200 THEN ZoomAPIError(r.status, "", RawText(r.body))
  ELSE OkTokens(TokenData(n, r.body))

\* exchange_code_for_tokens and refresh_access_token after client.post.
TokenOutcome(r, n) ==
  IF r = NetError THEN Raised
  ELSE IF r.status # 200 THEN ZoomAPIError(r.status, "", RawText(r.body))
  ELSE OkTokens(TokenData(n, r.body))

token_recv(p) ==
  /\ pc[p] = "recv"
  /\ op[p] \in {"exchange", "refresh", "gvat"}
  /\ \E r \in TokenResponses :
       /\ r.status = 200 => issued < MaxIssued
       /\ issued' = IF r.status = 200 THEN issued + 1 ELSE issued
       /\ Finish(p, TokenOutcome(r, issued + 1))
       /\ log' = [log EXCEPT ![p] = Append(@, EvResp(r))]
  /\ UNCHANGED <<now, ticks, waited, uuid, rl, store, op, svc, req, wake, calls, rets, gv,
                 rows, route>>

\* ApiOutcome with "response.status_code > 400".
ApiOutcomeAbove400(r) ==
  IF r = NetError THEN Raised
  ELSE IF r.status = 401 THEN ZoomAPIError(401, "token_expired", 0)
  ELSE IF r.status > 400
       THEN ZoomAPIError(r.status,
                         IF r.json THEN "provider_code" ELSE "",
                         IF r.json THEN JsonMessage(r.body) ELSE RawText(r.body))
  ELSE Ok(r.body)

\* _make_authenticated_request after client.request: the outcome of a
\* response other than 429.
ApiOutcome(r) ==
  IF r = NetError THEN Raised
  ELSE IF r.status = 401 THEN ZoomAPIError(401, "token_expired", 0)
  ELSE IF r.status >= 400
       THEN ZoomAPIError(r.status,
                         IF r.json THEN "provider_code" ELSE "",
                         IF r.json THEN JsonMessage(r.body) ELSE RawText(r.body))
  ELSE Ok(r.body)

\* IsRateLimited with 401 retried like 429.
IsRateLimitedOr401(r) == r # NetError /\ r.status \in {401, 429}

\* IsRateLimited with every error status taken for a rate limit.
IsRateLimitedAnyError(r) == r # NetError /\ r.status >= 400

IsRateLimited(r) == r # NetError /\ r.status = 429

\* RateLimitSleep with the limiter's interval in place of the cool-down.
RateLimitSleepShort == MinInterval

\* await asyncio.sleep(60)
RateLimitSleep == CoolDown

\* AfterCoolDown with the retry sent without wait_if_needed.
AfterCoolDownNoWait == "send"

\* Where the recursive call starts: at the method's wait_if_needed.
AfterCoolDown == "wait"

api_recv(p) ==
  /\ pc[p] = "recv"
  /\ op[p] = "api"
  /\ \E r \in Responses :
       /\ r.status = 429 => CountEv(log[p], "cool") < MaxRetries
       /\ IF IsRateLimited(r)
          THEN /\ pc' = [pc EXCEPT ![p] = "cooldown"]
               /\ wake' = [wake EXCEPT ![p] = now + RateLimitSleep]
               /\ log' = [log EXCEPT ![p] = Append(Append(@, EvResp(r)), EvCool(RateLimitSleep))]
               /\ UNCHANGED result
          ELSE /\ Finish(p, ApiOutcome(r))
               /\ log' = [log EXCEPT ![p] = Append(@, EvResp(r))]
               /\ UNCHANGED wake
  /\ UNCHANGED <<now, ticks, waited, uuid, rl, store, issued, op, svc, req, calls,
                 rets, gv, rows, route>>

\* asyncio.sleep(60) is over: the recursive call starts.
cooldown_wake(p) ==
  /\ pc[p] = "cooldown"
  /\ now' = Max(now, wake[p])
  /\ pc' = [pc EXCEPT ![p] = AfterCoolDown]
  /\ UNCHANGED <<ticks, waited, uuid, rl, store, issued, op, svc, req, wake, result,
                 calls, log, rets, gv, rows, route>>

\* DownloadOutcome with a 401 marked as _make_authenticated_request marks it.
DownloadOutcomeTokenExpired(r) ==
  IF r = NetError THEN Raised
  ELSE IF r.status = 401 THEN ZoomAPIError(401, "token_expired", 0)
  ELSE IF r.status # 200 THEN ZoomAPIError(r.status, "", r.status)
  ELSE Ok(r.body)

\* download_recording_file after client.get.
DownloadOutcome(r) ==
  IF r = NetError THEN Raised
  ELSE IF r.status # 200 THEN ZoomAPIError(r.status, "", r.status)
  ELSE Ok(r.body)

download_recv(p) ==
  /\ pc[p] = "recv"
  /\ op[p] = "download"
  /\ \E r \in Responses :
       /\ Finish(p, DownloadOutcome(r))
       /\ log' = [log EXCEPT ![p] = Append(@, EvResp(r))]
  /\ UNCHANGED <<now, ticks, waited, uuid, rl, store, issued, op, svc, req, wake,
                 calls, rets, gv, rows, route>>

\* ---------------------------------------------------- ZoomCredentialService
ReturnedNone == [kind |-> "None", status |-> 0, code |-> "", val |-> 0, tokens |-> NoTokenData]
\* ReturnedBool with True returned from the except clause too.
ReturnedBoolAlwaysTrue(b) == [kind |-> "bool", status |-> 0, code |-> "", val |-> 1, tokens |-> NoTokenData]

ReturnedBool(b) == [kind |-> "bool", status |-> 0, code |-> "", val |-> IF b THEN 1 ELSE 0, tokens |-> NoTokenData]

\* get_credentials that answers from the table though the read raised.
get_credentialsDespiteFailure(st, u, ok) == IF st[u].present THEN st[u] ELSE NoCred

\* get_credentials: the row, or None when there is none or the store raised.
get_credentials(st, u, ok) == IF ok /\ st[u].present THEN st[u] ELSE NoCred

\* IsExpired with "datetime.utcnow() >= expires_at".
IsExpiredAtDeadline(credentials, t) ==
  IF ~credentials.present \/ credentials.expires_at = NoExpiry
  THEN TRUE
  ELSE t >= credentials.expires_at

\* is_token_expired on what get_credentials gave, at clock t.
IsExpired(credentials, t) ==
  IF ~credentials.present \/ credentials.expires_at = NoExpiry
  THEN TRUE
  ELSE t > credentials.expires_at

\* The row store_credentials upserts at clock t.
NewRow(td, zu, ze, t) ==
  [present |-> TRUE, access_token |-> td.access_token,
   refresh_token |-> td.refresh_token, expires_at |-> t + td.expires_in,
   zoom_user_id |-> zu, zoom_email |-> ze, created_at |-> t, updated_at |-> t]

\* UpdatedStore without the new refresh_token.
UpdatedStoreKeepsRefresh(st, u, td, t, ok) ==
  IF ok /\ st[u].present
  THEN [st EXCEPT ![u].access_token = td.access_token,
                  ![u].expires_at = t + td.expires_in,
                  ![u].updated_at = t]
  ELSE st

\* UpdatedStore that skips a row already updated at clock t or later.
UpdatedStoreUnlessNewer(st, u, td, t, ok) ==
  IF ok /\ st[u].present /\ st[u].updated_at < t
  THEN [st EXCEPT ![u].access_token = td.access_token,
                  ![u].refresh_token = td.refresh_token,
                  ![u].expires_at = t + td.expires_in,
                  ![u].updated_at = t]
  ELSE st

\* UpdatedStore that writes the row when the user has none.
UpdatedStoreUpserts(st, u, td, t, ok) ==
  IF ok
  THEN IF st[u].present
       THEN [st EXCEPT ![u].access_token = td.access_token,
                       ![u].refresh_token = td.refresh_token,
                       ![u].expires_at = t + td.expires_in,
                       ![u].updated_at = t]
       ELSE [st EXCEPT ![u] = [NoCred EXCEPT !.present = TRUE,
                                             !.access_token = td.access_token,
                                             !.refresh_token = td.refresh_token,
                                             !.expires_at = t + td.expires_in,
                                             !.updated_at = t]]
  ELSE st

\* UpdatedStore that writes created_at as store_credentials does.
UpdatedStoreResetsCreated(st, u, td, t, ok) ==
  IF ok /\ st[u].present
  THEN [st EXCEPT ![u].access_token = td.access_token,
                  ![u].refresh_token = td.refresh_token,
                  ![u].expires_at = t + td.expires_in,
                  ![u].created_at = t,
                  ![u].updated_at = t]
  ELSE st

\* The table after update_tokens at clock t (ok: the store did not raise).
UpdatedStore(st, u, td, t, ok) ==
  IF ok /\ st[u].present
  THEN [st EXCEPT ![u].access_token = td.access_token,
                  ![u].refresh_token = td.refresh_token,
                  ![u].expires_at = t + td.expires_in,
                  ![u].updated_at = t]
  ELSE st

BeginStoreOp(p, o, res, g) ==
  /\ op' = [op EXCEPT ![p] = o]
  /\ pc' = [pc EXCEPT ![p] = "done"]
  /\ result' = [result EXCEPT ![p] = res]
  /\ log' = [log EXCEPT ![p] = <<>>]
  /\ calls' = [calls EXCEPT ![p] = @ + 1]
  /\ gv' = [gv EXCEPT ![p] = g]
  /\ UNCHANGED <<now, ticks, waited, uuid, rl, svc, req, wake, rets, route>>

\* UpsertRows with a second row added for a user who has one.
UpsertRowsInsert(n) == n + 1

\* The number of rows a user has after upsert(data): the table is unique on
\* user_id and the upsert overwrites the row in place.
UpsertRows(n) == IF n = 0 THEN 1 ELSE n

\* store_credentials with the token response of a code exchange.
store_credentials(p) ==
  /\ Idle(p)
  /\ issued < MaxIssued
  /\ \E u \in Users, e \in ExpiresInSet, ok \in BOOLEAN :
       /\ store' = IF ok THEN [store EXCEPT ![u] = NewRow(TokenData(issued + 1, e), 1, 1, now)]
                   ELSE store
       /\ rows' = IF ok THEN [rows EXCEPT ![u] = UpsertRows(@)] ELSE rows
       /\ issued' = issued + 1
       /\ BeginStoreOp(p, "store", ReturnedBool(ok),
                       [NoGv EXCEPT !.user = u, !.pre = store[u],
                                    !.token_data = TokenData(issued + 1, e),
                                    !.writeOk = ok, !.wrote = (store' # store),
                                    !.updatedAt = now])

delete_credentials(p) ==
  /\ Idle(p)
  /\ \E u \in Users, ok \in BOOLEAN :
       /\ store' = IF ok THEN [store EXCEPT ![u] = NoCred] ELSE store
       /\ rows' = IF ok THEN [rows EXCEPT ![u] = 0] ELSE rows
       /\ BeginStoreOp(p, "delete", ReturnedBool(ok),
                       [NoGv EXCEPT !.user = u, !.pre = store[u], !.writeOk = ok,
                                    !.wrote = (store' # store)])
  /\ UNCHANGED issued

\* update_tokens called with a token response of the provider.
update_tokens(p) ==
  /\ Idle(p)
  /\ issued < MaxIssued
  /\ \E u \in Users, e \in ExpiresInSet, ok \in BOOLEAN :
       LET td == TokenData(issued + 1, e)
       IN /\ store' = UpdatedStore(store, u, td, now, ok)
          /\ issued' = issued + 1
          /\ BeginStoreOp(p, "update", ReturnedBool(ok),
                          [NoGv EXCEPT !.user = u, !.pre = store[u],
                                       !.token_data = td, !.writeOk = ok,
                                       !.wrote = (store' # store),
                                       !.updatedAt = now])
  /\ UNCHANGED rows

is_token_expired(p) ==
  /\ Idle(p)
  /\ \E u \in Users, ok \in BOOLEAN :
       BeginStoreOp(p, "expired",
                    ReturnedBool(IsExpired(get_credentials(store, u, ok), now)),
                    [NoGv EXCEPT !.user = u, !.pre = store[u], !.read1 = ok,
                                 !.checkedAt = now])
  /\ UNCHANGED <<store, issued, rows>>

\* HasCredentials without the check.
HasCredentialsAlways(credentials) == TRUE

\* StoredAccessToken returning the other token of the row.
StoredRefreshToken(credentials) == credentials.refresh_token

\* "if not credentials"
HasCredentials(credentials) == credentials.present

\* "return credentials['access_token']"
StoredAccessToken(credentials) == credentials.access_token

\* get_valid_access_token up to its call of is_token_expired.
get_valid_access_token(p) ==
  /\ Idle(p)
  /\ \E u \in Users, ok \in BOOLEAN :
       LET credentials == get_credentials(store, u, ok)
       IN /\ gv' = [gv EXCEPT ![p] = [NoGv EXCEPT !.user = u, !.pre = store[u],
                                                  !.credentials = credentials,
                                                  !.read1 = ok]]
          /\ IF ~HasCredentials(credentials)
             THEN /\ pc' = [pc EXCEPT ![p] = "done"]
                  /\ result' = [result EXCEPT ![p] = ReturnedNone]
             ELSE /\ pc' = [pc EXCEPT ![p] = "gv_check"]
                  /\ result' = [result EXCEPT ![p] = NoResult]
  /\ op' = [op EXCEPT ![p] = "gvat"]
  /\ log' = [log EXCEPT ![p] = <<>>]
  /\ calls' = [calls EXCEPT ![p] = @ + 1]
  /\ UNCHANGED <<now, ticks, waited, uuid, rl, store, issued, svc, req, wake, rets,
                 rows, route>>

\* The expiry check of get_valid_access_token; when expired, ZoomService()
\* is constructed and refresh_access_token called with the refresh token
\* read first.
gv_check(p) ==
  /\ pc[p] = "gv_check"
  /\ \E ok \in BOOLEAN :
       LET expired == IsExpired(get_credentials(store, gv[p].user, ok), now)
           s == RefreshSvc(p)
       IN /\ gv' = [gv EXCEPT ![p].read2 = ok, ![p].checkedAt = now,
                               ![p].expired = expired, ![p].built = expired,
                               ![p].checked = get_credentials(store, gv[p].user, ok)]
          /\ IF expired
             THEN /\ rl' = [rl EXCEPT ![s] = NewLimiter]
                  /\ rets' = [rets EXCEPT ![s] = <<>>]
                  /\ svc' = [svc EXCEPT ![p] = s]
                  /\ req' = [req EXCEPT ![p] =
                               TokenReq("refresh_token", gv[p].credentials.refresh_token)]
                  /\ pc' = [pc EXCEPT ![p] = "wait"]
                  /\ UNCHANGED result
             ELSE /\ result' = [result EXCEPT ![p] = Ok(StoredAccessToken(gv[p].credentials))]
                  /\ pc' = [pc EXCEPT ![p] = "done"]
                  /\ UNCHANGED <<rl, rets, svc, req>>
  /\ UNCHANGED <<now, ticks, waited, uuid, store, issued, op, wake, calls, log, rows, route>>

\* StoreAfterFailedRefresh with the credential dropped.
StoreAfterFailedRefreshDeletes(st, u) == [st EXCEPT ![u] = NoCred]

\* The table after the except clause of get_valid_access_token: it makes
\* no store call.
StoreAfterFailedRefresh(st, u) == st

\* What get_valid_access_token gives once refresh_access_token has returned
\* or raised.
GvOutcome(res) ==
  IF res.kind = "ok" THEN Ok(res.tokens.access_token)
  ELSE IF res.kind = "error" THEN ReturnedNone
  ELSE res

\* get_valid_access_token after refresh_access_token: update_tokens and the
\* return, or the except clause.
gv_refreshed(p) ==
  /\ pc[p] = "gv_refreshed"
  /\ \E ok \in BOOLEAN :
       LET res == result[p]
           u == gv[p].user
       IN /\ res.kind # "ok" => ok
          /\ store' = IF res.kind = "ok"
                      THEN UpdatedStore(store, u, res.tokens, now, ok)
                      ELSE StoreAfterFailedRefresh(store, u)
          /\ gv' = [gv EXCEPT ![p].token_data = res.tokens,
                               ![p].wrote = (store' # store),
                               ![p].writeOk = (res.kind = "ok" /\ ok),
                               ![p].updatedAt = IF res.kind = "ok" THEN now ELSE 0]
          /\ result' = [result EXCEPT ![p] = GvOutcome(res)]
  /\ pc' = [pc EXCEPT ![p] = "done"]
  /\ UNCHANGED <<now, ticks, waited, uuid, rl, issued, op, svc, req, wake, calls, log, rets,
                 rows, route>>

\* ------------------------------------------------------------ route handlers
\* A row whose access token is still good when the process starts.
LiveCred == [LegacyCred EXCEPT !.expires_at = StartTime + 1]

\* What is raised inside the try block of a handler.
HTTPException(st, d) == [kind |-> "http", status |-> st, code |-> d, val |-> 0, tokens |-> NoTokenData]

\* The response of a handler to what was raised inside its try block: the
\* "except ZoomAPIError" clause, then "except Exception", which also catches
\* an HTTPException raised in the block.
HandlerResponse(exc) ==
  IF exc.kind = "error"
  THEN IF exc.code = "token_expired"
       THEN [status |-> 401, detail |-> "credentials_expired", msg |-> 0]
       ELSE [status |-> 400, detail |-> "zoom_api_error", msg |-> exc.val]
  ELSE [status |-> 500, detail |-> "failed", msg |-> 0]

RouteActive(p) == route[p].handler # "none" /\ route[p].status = 0

Respond(p, call, resp, cause) ==
  route' = [route EXCEPT ![p].made = Append(@, call),
                         ![p].status = resp.status,
                         ![p].detail = resp.detail,
                         ![p].msg = resp.msg,
                         ![p].cause = cause]

\* The handler is entered by the one request a caller makes:
\* ZoomService() and ZoomCredentialService() are constructed.
EnterRoute(p, h) ==
  /\ route[p] = NoRoute
  /\ route' = [route EXCEPT ![p] = [NoRoute EXCEPT !.handler = h]]
  /\ rl' = [rl EXCEPT ![HandlerSvc(p)] = NewLimiter]
  /\ rets' = [rets EXCEPT ![HandlerSvc(p)] = <<>>]
  /\ op' = [op EXCEPT ![p] = "route"]
  /\ pc' = [pc EXCEPT ![p] = "idle"]
  /\ UNCHANGED <<now, ticks, waited, uuid, store, issued, svc, req, wake, result, calls,
                 log, gv, rows>>

list_zoom_meetings(p) ==
  /\ Idle(p)
  /\ EnterRoute(p, "list")

download_and_process_zoom_meeting(p) ==
  /\ Idle(p)
  /\ EnterRoute(p, "download")

\* "access_token = await credential_service.get_valid_access_token(...)"
route_get_token(p) ==
  /\ RouteActive(p)
  /\ route[p].handler \in {"list", "download"}
  /\ op[p] = "route"
  /\ get_valid_access_token(p)

\* The first provider call of a handler.
RouteReq(h, tok) ==
  IF h = "list"
  THEN ApiReq("GET", "/users/me/recordings", tok, 1, 0)
  ELSE ApiReq("GET", "/meetings/1/recordings", tok, 0, 0)

\* The handler after get_valid_access_token: "if not access_token", then
\* list_recordings or get_meeting_recordings.
route_token(p) ==
  /\ RouteActive(p)
  /\ op[p] = "gvat"
  /\ pc[p] = "done"
  /\ LET res == result[p]
     IN IF res.kind = "ok"
        THEN /\ Begin(p, "api", RouteReq(route[p].handler, res.val))
             /\ route' = [route EXCEPT ![p].made = Append(@, "gvat")]
             /\ UNCHANGED <<rl, rets>>
        ELSE /\ Respond(p, "gvat",
                        HandlerResponse(IF res = ReturnedNone
                                        THEN HTTPException(401, "no_valid_credentials")
                                        ELSE res),
                        res)
             /\ UNCHANGED <<now, ticks, waited, uuid, rl, store, issued, pc, op, svc, req,
                            wake, result, calls, log, rets, gv, rows>>

\* The handler after list_recordings or get_meeting_recordings: the response
\* of list_zoom_meetings; in download_and_process_zoom_meeting the search
\* for the requested file and download_recording_file.
route_api(p) ==
  /\ RouteActive(p)
  /\ route[p].handler \in {"list", "download"}
  /\ op[p] = "api"
  /\ pc[p] = "done"
  /\ LET res == result[p]
     IN \E found \in BOOLEAN :
          IF res.kind = "ok" /\ route[p].handler = "download" /\ found
          THEN /\ Begin(p, "download",
                        ApiReq("GET", "https://zoom.us/rec/download/1", req[p].auth, 0, 0))
               /\ route' = [route EXCEPT ![p].made = Append(@, "api")]
               /\ UNCHANGED <<rl, rets>>
          ELSE /\ Respond(p, "api",
                          IF res.kind # "ok" THEN HandlerResponse(res)
                          ELSE IF route[p].handler = "download"
                               THEN HandlerResponse(HTTPException(404, "not_found"))
                               ELSE [status |-> 200, detail |-> "meetings", msg |-> res.val],
                          res)
               /\ UNCHANGED <<now, ticks, waited, uuid, rl, store, issued, pc, op, svc, req,
                              wake, result, calls, log, rets, gv, rows>>

\* download_and_process_zoom_meeting after download_recording_file (with
\* process_immediately false).
route_download(p) ==
  /\ RouteActive(p)
  /\ op[p] = "download"
  /\ pc[p] = "done"
  /\ LET res == result[p]
     IN Respond(p, "download",
                IF res.kind = "ok"
                THEN [status |-> 200, detail |-> "downloaded", msg |-> 0]
                ELSE HandlerResponse(res),
                res)
  /\ UNCHANGED <<now, ticks, waited, uuid, rl, store, issued, pc, op, svc, req, wake,
                 result, calls, log, rets, gv, rows>>

\* The response of handle_zoom_auth_callback to what was raised inside its
\* try block: every ZoomAPIError is answered 400 with its message, anything
\* else, the HTTPException of the block included, 500.
AuthErrorResponse(exc) ==
  IF exc.kind = "error"
  THEN [status |-> 400, detail |-> "zoom_api_error", msg |-> exc.val]
  ELSE [status |-> 500, detail |-> "authentication_failed", msg |-> 0]

\* AuthResponse without "if not success".
AuthResponseAlwaysSuccess(success) ==
  [status |-> 200, detail |-> "connected", msg |-> 0]

\* handle_zoom_auth_callback after store_credentials: "if not success: raise
\* HTTPException(500)", else ZoomAuthResponse(success=True).
AuthResponse(success) ==
  IF success THEN [status |-> 200, detail |-> "connected", msg |-> 0]
  ELSE AuthErrorResponse(HTTPException(500, "failed_to_store"))

handle_zoom_auth_callback(p) ==
  /\ Idle(p)
  /\ EnterRoute(p, "auth")

\* "token_data = await zoom_service.exchange_code_for_tokens(code)"
route_exchange(p) ==
  /\ RouteActive(p)
  /\ route[p].handler = "auth"
  /\ op[p] = "route"
  /\ \E code \in {1} : Begin(p, "exchange", TokenReq("authorization_code", code))
  /\ UNCHANGED <<rl, rets, route>>

\* The handler after exchange_code_for_tokens:
\* "user_info = await zoom_service.get_user_info(token_data['access_token'])"
route_exchanged(p) ==
  /\ RouteActive(p)
  /\ op[p] = "exchange"
  /\ pc[p] = "done"
  /\ LET res == result[p]
     IN IF res.kind = "ok"
        THEN /\ Begin(p, "api", ApiReq("GET", "/users/me", res.tokens.access_token, 0, 0))
             /\ route' = [route EXCEPT ![p].made = Append(@, "exchange"),
                                       ![p].tokens = res.tokens]
             /\ UNCHANGED <<rl, rets>>
        ELSE /\ Respond(p, "exchange", AuthErrorResponse(res), res)
             /\ UNCHANGED <<now, ticks, waited, uuid, rl, store, issued, pc, op, svc, req,
                            wake, result, calls, log, rets, gv, rows>>

\* The handler after get_user_info: store_credentials with the tokens of the
\* exchange, then the response.
route_user_info(p) ==
  /\ RouteActive(p)
  /\ route[p].handler = "auth"
  /\ op[p] = "api"
  /\ pc[p] = "done"
  /\ LET res == result[p]
     IN IF res.kind = "ok"
        THEN \E u \in Users, ok \in BOOLEAN :
               LET success == ReturnedBool(ok)
                   resp == AuthResponse(success.val = 1)
               IN /\ store' = IF ok THEN [store EXCEPT ![u] = NewRow(route[p].tokens, 1, 1, now)]
                              ELSE store
                  /\ rows' = IF ok THEN [rows EXCEPT ![u] = UpsertRows(@)] ELSE rows
                  /\ route' = [route EXCEPT ![p].made = @ \o <<"api", "store">>,
                                            ![p].status = resp.status,
                                            ![p].detail = resp.detail,
                                            ![p].msg = resp.msg,
                                            ![p].cause = success]
        ELSE /\ Respond(p, "api", AuthErrorResponse(res), res)
             /\ UNCHANGED <<store, rows>>
  /\ UNCHANGED <<now, ticks, waited, uuid, rl, issued, pc, op, svc, req, wake, result,
                 calls, log, rets, gv>>

Next ==
  \/ Tick
  \/ \E p \in SeqProcs :
       \/ exchange_code_for_tokens(p)
       \/ refresh_access_token(p)
       \/ make_authenticated_request(p)
       \/ download_recording_file(p)
       \/ wait_if_needed(p)
       \/ wait_wake(p)
       \/ http_send(p)
       \/ token_recv(p)
       \/ api_recv(p)
       \/ cooldown_wake(p)
       \/ download_recv(p)

Spec == Init /\ [][Next]_vars

\* The credential service used by one caller at a time.  The table outlives
\* the process: it starts empty or with a row written earlier.
InitCred ==
  /\ InitBase
  /\ \E c \in {NoCred, LegacyCred} : store = [u \in Users |-> c]
  /\ rows = [u \in Users |-> IF store[u].present THEN 1 ELSE 0]
  /\ uuid = [p \in Procs |-> NoUuid]

NextCred ==
  \/ Tick
  \/ \E p \in SeqProcs :
       \/ store_credentials(p)
       \/ delete_credentials(p)
       \/ update_tokens(p)
       \/ is_token_expired(p)
       \/ get_valid_access_token(p)
       \/ gv_check(p)
       \/ wait_if_needed(p)
       \/ http_send(p)
       \/ token_recv(p)
       \/ gv_refreshed(p)

SpecCred == InitCred /\ [][NextCred]_vars

\* The credential service used by two callers at once: their steps
\* interleave at any point, within one instant of the clock.  Together they
\* make at most MaxCalls + 1 calls.
RECURSIVE SumCalls(_)
SumCalls(S) ==
  IF S = {} THEN 0
  ELSE LET p == CHOOSE x \in S : TRUE IN calls[p] + SumCalls(S \ {p})

ConcIdle == SumCalls(Procs) < MaxCalls + 1

NextConc ==
  \E p \in Procs :
    \/ ConcIdle /\ store_credentials(p)
    \/ ConcIdle /\ update_tokens(p)
    \/ ConcIdle /\ delete_credentials(p)
    \/ ConcIdle /\ get_valid_access_token(p)
    \/ gv_check(p)
    \/ wait_if_needed(p)
    \/ http_send(p)
    \/ token_recv(p)
    \/ gv_refreshed(p)

SpecConc == InitCred /\ [][NextConc]_vars

\* _make_authenticated_request under the scheduling of the event loop: a
\* coroutine that can run is run, asyncio.sleep returns, and the HTTP client
\* (timeout 30 s) ends every request with a response or an exception.  The
\* provider answers 429 at most MaxRetries times to one call.  The clock
\* advances when a sleep ends.
NextLive ==
  \E p \in SeqProcs :
    \/ make_authenticated_request(p)
    \/ wait_if_needed(p)
    \/ wait_wake(p)
    \/ http_send(p)
    \/ api_recv(p)
    \/ cooldown_wake(p)

SpecLive ==
  /\ Init
  /\ [][NextLive]_vars
  /\ \A p \in SeqProcs :
       /\ WF_vars(wait_if_needed(p))
       /\ WF_vars(wait_wake(p))
       /\ WF_vars(http_send(p))
       /\ WF_vars(api_recv(p))
       /\ WF_vars(cooldown_wake(p))

\* One ZoomService instance, and so one ZoomRateLimiter, used by two
\* cooperatively scheduled callers: each runs until it awaits, and a caller
\* may enter wait_if_needed while the other is suspended in it.  Together
\* they make at most MaxCalls + 1 calls; the clock advances when a sleep
\* ends.
SharedSvc == 1

shared_exchange_code_for_tokens(p) ==
  /\ Idle(p)
  /\ ConcIdle
  /\ \E code \in {1} :
       BeginOn(p, "exchange", TokenReq("authorization_code", code), SharedSvc)
  /\ UNCHANGED <<rl, rets, route, uuid>>

NextShared ==
  \E p \in Procs :
    \/ shared_exchange_code_for_tokens(p)
    \/ wait_if_needed(p)
    \/ wait_wake(p)
    \/ http_send(p)
    \/ token_recv(p)

SpecShared == Init /\ [][NextShared]_vars

\* get_meeting_participants called once with a meeting id of at most MaxLen
\* characters, drawn from the characters the encoding treats and "%" with
\* two characters that can follow it.  The clock advances when the cool-down
\* after a 429 ends.
Chars == {"/", "+", "=", "%", "2", "F"}

MeetingIds == UNION {[1..n -> Chars] : n \in 0..MaxLen}

\* str.replace(c, r) on a sequence of characters.
RECURSIVE Replace(_, _, _)
Replace(s, c, r) ==
  IF s = <<>> THEN <<>>
  ELSE (IF Head(s) = c THEN r ELSE <<Head(s)>>) \o Replace(Tail(s), c, r)

\* "meeting_uuid.replace('/', '%2F').replace('+', '%2B').replace('=', '%3D')"
EncodedUuid(meeting_uuid) ==
  Replace(Replace(Replace(meeting_uuid, "/", <<"%", "2", "F">>),
                  "+", <<"%", "2", "B">>),
          "=", <<"%", "3", "D">>)

get_meeting_participants(p) ==
  /\ Idle(p)
  /\ calls[p] = 0
  /\ LET encoded_uuid == EncodedUuid(uuid[p].meeting_uuid)
     IN /\ uuid' = [uuid EXCEPT ![p].encoded_uuid = encoded_uuid]
        /\ BeginOn(p, "api",
                   ApiReq("GET", "/report/meetings/{encoded_uuid}/participants",
                          AccessTok(1), 0, 0),
                   HandlerSvc(p))
  /\ UNCHANGED <<rl, rets, route>>

InitEnc ==
  /\ InitBase
  /\ store = [u \in Users |-> NoCred]
  /\ rows = [u \in Users |-> 0]
  /\ \E id \in MeetingIds :
       uuid = [p \in Procs |-> IF p \in SeqProcs
                                THEN [NoUuid EXCEPT !.meeting_uuid = id]
                                ELSE NoUuid]

NextEnc ==
  \E p \in SeqProcs :
    \/ get_meeting_participants(p)
    \/ wait_if_needed(p)
    \/ http_send(p)
    \/ api_recv(p)
    \/ cooldown_wake(p)

SpecEnc == InitEnc /\ [][NextEnc]_vars

\* The route handlers of the provider integration, serving one request of a
\* user whose table row is absent, without expires_at, or still good.
InitRoute ==
  /\ InitBase
  /\ \E c \in {NoCred, LegacyCred, LiveCred} : store = [u \in Users |-> c]
  /\ rows = [u \in Users |-> IF store[u].present THEN 1 ELSE 0]
  /\ uuid = [p \in Procs |-> NoUuid]

NextRoute ==
  \/ Tick
  \/ \E p \in SeqProcs :
       \/ list_zoom_meetings(p)
       \/ download_and_process_zoom_meeting(p)
       \/ handle_zoom_auth_callback(p)
       \/ route_get_token(p)
       \/ route_exchange(p)
       \/ route_exchanged(p)
       \/ route_user_info(p)
       \/ gv_check(p)
       \/ wait_if_needed(p)
       \/ wait_wake(p)
       \/ http_send(p)
       \/ token_recv(p)
       \/ gv_refreshed(p)
       \/ route_token(p)
       \/ api_recv(p)
       \/ cooldown_wake(p)
       \/ route_api(p)
       \/ download_recv(p)
       \/ route_download(p)

SpecRoute == InitRoute /\ [][NextRoute]_vars

\* ==================================================================== claims
GvDone(p) == pc[p] = "done" /\ op[p] = "gvat"

\* The store answered both reads of the call and held a row with expires_at.
GvSawRow(p) ==
  /\ gv[p].read1 /\ gv[p].read2
  /\ gv[p].pre.present /\ gv[p].pre.expires_at # NoExpiry

\* The call reached refresh_access_token and that call has ended.
GvRefreshSucceeded(p) == GvDone(p) /\ log[p] # <<>> /\ gv[p].token_data # NoTokenData
GvRefreshFailed(p) == GvDone(p) /\ log[p] # <<>> /\ gv[p].token_data = NoTokenData

\* C1: for a stored credential that is not expired at the expiry check
\* (now <= expires_at) and that the store returns on both reads,
\* get_valid_access_token returns the stored access_token, makes no
\* wait_if_needed or HTTP call (no refresh, no ZoomService), and leaves the
\* row as it was.
C1_NotExpiredReturnsStored ==
  \A p \in Procs :
    (GvDone(p) /\ GvSawRow(p) /\ gv[p].checkedAt <= gv[p].pre.expires_at)
    => /\ result[p] = Ok(gv[p].pre.access_token)
       /\ log[p] = <<>>
       /\ ~gv[p].built
       /\ ~gv[p].wrote
       /\ store[gv[p].user] = gv[p].pre

C1_Witness ==
  \E p \in Procs :
    /\ GvDone(p) /\ GvSawRow(p) /\ gv[p].checkedAt <= gv[p].pre.expires_at
    /\ result[p] = Ok(AccessTok(1))
    /\ gv[p].checkedAt > StartTime

\* C2: when the refresh call of get_valid_access_token succeeded with
\* (A, R, E) and the store accepted the write of update_tokens made at clock
\* T, the call returns A and the row holds access_token = A,
\* refresh_token = R, expires_at = T + E (and updated_at = T).
C2_RefreshPersistsAndReturns ==
  \A p \in Procs :
    (GvRefreshSucceeded(p) /\ gv[p].writeOk)
    => LET td == gv[p].token_data
           row == store[gv[p].user]
       IN /\ result[p] = Ok(td.access_token)
          /\ row.present
          /\ row.access_token = td.access_token
          /\ row.refresh_token = td.refresh_token
          /\ row.expires_at = gv[p].updatedAt + td.expires_in
          /\ row.updated_at = gv[p].updatedAt
          /\ td.access_token # gv[p].pre.access_token

C2_Witness ==
  \E p \in Procs :
    /\ GvRefreshSucceeded(p) /\ gv[p].writeOk
    /\ GvSawRow(p) /\ gv[p].checkedAt > gv[p].pre.expires_at
    /\ result[p] = Ok(AccessTok(2))
    /\ store[gv[p].user].expires_at = now + 3

\* C3 (as claimed): when the refresh call fails, get_valid_access_token
\* returns None and the row is what it was before the call.
C3_RefreshFailureReturnsNone ==
  \A p \in Procs :
    GvRefreshFailed(p)
    => /\ result[p] = ReturnedNone
       /\ store[gv[p].user] = gv[p].pre

\* What holds of a failed refresh: a non-200 answer gives None, a transport
\* error is raised to the caller, and in both cases the row is untouched.
RefreshFailureLeavesRow ==
  \A p \in Procs :
    GvRefreshFailed(p)
    => /\ store[gv[p].user] = gv[p].pre
       /\ ~gv[p].wrote
       /\ log[p][Len(log[p])].resp # NetError => result[p] = ReturnedNone
       /\ log[p][Len(log[p])].resp = NetError => result[p] = Raised

\* C4: for a user without a stored credential get_valid_access_token
\* returns None, constructs no ZoomService, makes no wait_if_needed or HTTP
\* call, and writes nothing.
C4_NoCredentialNoNetwork ==
  \A p \in Procs :
    (op[p] = "gvat" /\ ~gv[p].pre.present)
    => /\ pc[p] = "done"
       /\ result[p] = ReturnedNone
       /\ log[p] = <<>>
       /\ ~gv[p].built
       /\ ~gv[p].wrote
       /\ store[gv[p].user] = gv[p].pre

C4_Witness ==
  \E p \in Procs :
    /\ GvDone(p) /\ ~gv[p].pre.present /\ gv[p].read1
    /\ result[p] = ReturnedNone
    /\ calls[p] = 2

\* The rule of C5 on a stored row, at clock t.
ExpiredRule(row, t) == row.expires_at = NoExpiry \/ row.expires_at < t

GvRefreshing(p) ==
  pc[p] \in {"wait", "sleep", "send", "recv", "gv_refreshed"} \/ log[p] # <<>>

\* C5: on a stored row that the store returns, is_token_expired returns true
\* iff expires_at is absent or expires_at < now (false when now = expires_at),
\* and get_valid_access_token refreshes iff that same rule says expired.
C5_ExpiryRule ==
  \A p \in Procs :
    /\ (pc[p] = "done" /\ op[p] = "expired" /\ gv[p].read1 /\ gv[p].pre.present)
       => (result[p] = ReturnedBool(TRUE) <=> ExpiredRule(gv[p].pre, gv[p].checkedAt))
    /\ (op[p] = "gvat" /\ pc[p] # "gv_check" /\ gv[p].read1 /\ gv[p].read2
        /\ gv[p].pre.present)
       => (GvRefreshing(p) <=> ExpiredRule(gv[p].pre, gv[p].checkedAt))

C5_Witness ==
  \E p \in Procs :
    /\ pc[p] = "done" /\ op[p] = "expired" /\ gv[p].read1 /\ gv[p].pre.present
    /\ gv[p].checkedAt = gv[p].pre.expires_at
    /\ result[p] = ReturnedBool(FALSE)

IsResp(e, st) == e.ev = "resp" /\ e.resp # NetError /\ e.resp.status = st

RECURSIVE CountResp(_, _)
CountResp(s, st) ==
  IF s = <<>> THEN 0
  ELSE (IF IsResp(Head(s), st) THEN 1 ELSE 0) + CountResp(Tail(s), st)

Attempt429(r) == <<EvWait, EvHttp(r), EvResp([status |-> 429, json |-> TRUE, body |-> 9]), EvCool(CoolDown)>>

RECURSIVE Attempts429(_, _)
Attempts429(k, r) == IF k = 0 THEN <<>> ELSE Attempt429(r) \o Attempts429(k - 1, r)

\* C7: a call of _make_authenticated_request answered by k 429s and then by
\* another answer made k + 1 requests, all the same, each after a
\* wait_if_needed, slept 60 s once after each 429 and before the retry, and
\* its outcome is that of the last answer (the body for a status below 400);
\* a retry starts no earlier than 60 s after the request before it.
C7_RetryOn429 ==
  \A p \in Procs :
    /\ (op[p] = "api" /\ pc[p] = "done")
       => LET k == CountResp(log[p], 429)
              last == log[p][Len(log[p])]
          IN /\ last.ev = "resp"
             /\ log[p] = Attempts429(k, req[p]) \o <<EvWait, EvHttp(req[p]), last>>
             /\ CountEv(log[p], "http") = k + 1
             /\ CountEv(log[p], "cool") = k
             /\ last.resp = NetError => result[p].kind = "exception"
             /\ (last.resp # NetError /\ last.resp.status < 400)
                => result[p] = Ok(last.resp.body)
             /\ (last.resp # NetError /\ last.resp.status >= 400)
                => (result[p].kind = "error" /\ result[p].status = last.resp.status)
    /\ (op[p] = "api" /\ pc[p] = "wait" /\ log[p] # <<>>)
       => now >= rl[svc[p]].last_call + CoolDown

C7_Witness ==
  \E p \in Procs :
    /\ op[p] = "api" /\ pc[p] = "done"
    /\ CountResp(log[p], 429) = 1
    /\ CountEv(log[p], "http") = 2
    /\ result[p] = Ok(7)

\* C8: on one ZoomRateLimiter, two consecutive returns of wait_if_needed
\* (calls made one after another) are at least 0.02 s apart.
C8_MinIntervalBetweenReturns ==
  \A s \in Services :
    Len(rets[s]) = 2 => rets[s][2] - rets[s][1] >= MinInterval

C8_Witness ==
  \E p \in Procs :
    /\ pc[p] = "send"
    /\ Len(rets[svc[p]]) = 2
    /\ wake[p] = rets[svc[p]][2]
    /\ rets[svc[p]][2] - rets[svc[p]][1] = MinInterval

Entering(p, s) == pc[p] = "wait" /\ svc[p] = s /\ pc'[p] # "wait"
Completing(p, s) == pc[p] \in {"wait", "sleep"} /\ svc[p] = s /\ pc'[p] = "send"

\* C9: a wait_if_needed call that starts strictly after reset_time sets
\* call_count to 0 and reset_time to its start time + 3600 s before it counts
\* itself; a call that starts at or before reset_time leaves both; each
\* completed call adds one to call_count; no other step changes either.
C9_HourlyReset ==
  [][\A s \in Services :
       LET entering == \E p \in Procs : Entering(p, s)
           done == IF \E p \in Procs : Completing(p, s) THEN 1 ELSE 0
       IN /\ (entering /\ now > rl[s].reset_time)
             => /\ rl'[s].reset_time = now + HourWindow
                /\ rl'[s].call_count = done
          /\ ~(entering /\ now > rl[s].reset_time)
             => /\ rl'[s].reset_time = rl[s].reset_time
                /\ rl'[s].call_count = rl[s].call_count + done]_vars

C9_Witness ==
  \E s \in Services :
    /\ rl[s].reset_time > StartTime + HourWindow + HourWindow
    /\ rl[s].call_count = 1
    /\ Len(rets[s]) = 2

\* C10: every HTTP request (code exchange, token refresh, authenticated
\* request and each of its retries, download) comes right after a completed
\* wait_if_needed of its own.
C10_WaitBeforeEveryRequest ==
  \A p \in Procs :
    \A i \in DOMAIN log[p] :
      log[p][i].ev = "http" => (i > 1 /\ log[p][i - 1].ev = "wait")

C10_Witness ==
  \E p \in Procs :
    /\ op[p] = "api" /\ pc[p] = "done"
    /\ CountEv(log[p], "http") = 2
    /\ CountEv(log[p], "wait") = 2

Last(q) == q[Len(q)]
AbsDiff(a, b) == IF a >= b THEN a - b ELSE b - a

\* C11 (as claimed): all provider calls of the process are paced by one
\* limiter: the latest completed wait_if_needed of any two ZoomService
\* instances (a handler's, and the one get_valid_access_token refreshes
\* with) are at least 0.02 s apart.
C11_OneSharedLimiter ==
  \A s, t \in Services :
    (s # t /\ rets[s] # <<>> /\ rets[t] # <<>>)
    => AbsDiff(Last(rets[s]), Last(rets[t])) >= MinInterval

C15_OnlyDeleteRemoves ==
  /\ [][\A u \in Users :
          (store[u].present /\ ~store'[u].present)
          => \E p \in Procs : /\ Idle(p)
                              /\ op'[p] = "delete"
                              /\ calls'[p] = calls[p] + 1
                              /\ gv'[p].user = u]_vars
  /\ [](\A p \in Procs :
          /\ (op[p] = "gvat" /\ pc[p] # "gv_check" /\ gv[p].read1 /\ gv[p].read2
              /\ gv[p].pre.present /\ ExpiredRule(gv[p].pre, gv[p].checkedAt))
             => /\ gv[p].built
                /\ req[p] = TokenReq("refresh_token", gv[p].pre.refresh_token)
          /\ GvRefreshFailed(p) => store[gv[p].user] = gv[p].pre)

C15_Witness ==
  \E p \in Procs :
    /\ GvRefreshSucceeded(p)
    /\ calls[p] = 2
    /\ issued = 1
    /\ gv[p].pre = LegacyCred
    /\ log[p][2] = EvHttp(TokenReq("refresh_token", RefreshTok(0)))
    /\ store[gv[p].user].refresh_token = RefreshTok(1)

\* C16: store_credentials, update_tokens and delete_credentials return a
\* boolean and raise nothing: True exactly when the store call raised
\* nothing, False when it raised, and then the table is as it was.
C16_StoreFailureIsFalse ==
  \A p \in Procs :
    (pc[p] = "done" /\ op[p] \in {"store", "update", "delete"})
    => /\ result[p].kind = "bool"
       /\ result[p].val = 1 <=> gv[p].writeOk
       /\ result[p].val = 0 <=> ~gv[p].writeOk
       /\ ~gv[p].writeOk => store[gv[p].user] = gv[p].pre

C16_Witness ==
  \E p \in Procs :
    /\ pc[p] = "done" /\ op[p] = "update"
    /\ ~gv[p].writeOk
    /\ gv[p].pre.present
    /\ result[p] = ReturnedBool(FALSE)

\* C17 (as claimed): whatever made the refresh fail, a rejection by the
\* provider or a network error, get_valid_access_token returns None and
\* raises nothing.
C17_RefreshFailureSwallowed ==
  \A p \in Procs :
    (op[p] = "gvat" /\ pc[p] = "done" /\ gv[p].built
     /\ (Last(log[p]).resp = NetError \/ Last(log[p]).resp.status # 200))
    => /\ result[p].kind # "exception"
       /\ result[p] = ReturnedNone

RouteDone(p) == route[p].handler # "none" /\ route[p].status # 0

\* C18 (as claimed): a handler whose get_valid_access_token returned None
\* answers 401 with the reconnect instruction, and a handler whose provider
\* call raised an error other than token-expired answers 400 with the
\* provider's message.
C18_HandlerErrorMapping ==
  \A p \in Procs :
    RouteDone(p)
    => /\ route[p].cause = ReturnedNone
          => (route[p].status = 401 /\ route[p].detail = "no_valid_credentials")
       /\ (route[p].cause.kind = "error" /\ route[p].cause.code # "token_expired")
          => /\ route[p].status = 400
             /\ route[p].detail = "zoom_api_error"
             /\ route[p].msg = route[p].cause.val

\* What holds of the handlers: a provider error other than token-expired is
\* answered 400 with its message and a token-expired error 401, while a None
\* from get_valid_access_token is answered 500.
HandlerErrorMappingInCode ==
  \A p \in Procs :
    (RouteDone(p) /\ route[p].handler \in {"list", "download"})
    => /\ route[p].cause = ReturnedNone => route[p].status = 500
       /\ (route[p].cause.kind = "error" /\ route[p].cause.code # "token_expired")
          => (route[p].status = 400 /\ route[p].msg = route[p].cause.val)
       /\ (route[p].cause.kind = "error" /\ route[p].cause.code = "token_expired")
          => route[p].status = 401

\* C19 (as claimed): a handler that reports a failure after a token-expired
\* error of a provider call has, after that call, refreshed the credential
\* once and retried the call once.
C19_OneRefreshAndRetry ==
  \A p \in Procs :
    (RouteDone(p) /\ route[p].cause.kind = "error"
     /\ route[p].cause.code = "token_expired")
    => /\ Len(route[p].made) = 4
       /\ route[p].made[3] = "gvat"
       /\ route[p].made[4] = "api"

WithTriple(r, td, t) ==
  [r EXCEPT !.access_token = td.access_token,
            !.refresh_token = td.refresh_token,
            !.expires_at = t + td.expires_in,
            !.updated_at = t]

\* C12: the update of a get_valid_access_token call, when the store accepts
\* it, replaces whatever row the user has at that moment by the call's own
\* triple (nothing is compared with what the call read), so of two calls
\* that both refreshed the one expired credential the row holds the triple
\* of the one whose update ran last.
C12_LastWriteWins ==
  /\ [][\A p \in Procs :
          (pc[p] = "gv_refreshed" /\ pc'[p] = "done" /\ gv'[p].writeOk
           /\ store[gv[p].user].present)
          => store'[gv[p].user]
               = WithTriple(store[gv[p].user], result[p].tokens, now)]_vars
  /\ [](\A p, q \in Procs :
          (p # q /\ GvRefreshSucceeded(p) /\ GvRefreshSucceeded(q)
           /\ gv[p].writeOk /\ gv[q].writeOk /\ gv[p].user = gv[q].user
           /\ store[gv[p].user].present)
          => \E w \in {p, q} :
               store[gv[p].user]
                 = WithTriple(store[gv[p].user], gv[w].token_data, gv[w].updatedAt))

C12_Witness ==
  \E p, q \in Procs :
    /\ p # q
    /\ GvRefreshSucceeded(p) /\ GvRefreshSucceeded(q)
    /\ gv[p].pre = LegacyCred /\ gv[q].pre = LegacyCred
    /\ gv[p].expired /\ gv[q].expired
    /\ gv[p].wrote /\ gv[q].wrote
    /\ gv[p].writeOk /\ gv[q].writeOk
    /\ gv[p].token_data.access_token = AccessTok(1)
    /\ gv[q].token_data.access_token = AccessTok(2)
    /\ store[gv[p].user].access_token = AccessTok(1)
    /\ store[gv[p].user].refresh_token = RefreshTok(1)

\* The access token and the refresh token of a row are of one token
\* response, and its expires_at is the clock of its last write plus an
\* expires_in (or absent, in a row written before the process started).
OneResponse(r) ==
  /\ r.access_token - AccessTok(0) = r.refresh_token - RefreshTok(0)
  /\ r.expires_at = NoExpiry \/ r.expires_at - r.updated_at \in ExpiresInSet

\* C13: in every state the stored access_token, refresh_token and
\* expires_at of a user are of one token response; every step that changes
\* a row that stays is one write by one call: store_credentials writing a
\* whole new row, or an update (update_tokens, or the refresh of
\* get_valid_access_token) writing the three of its token response and
\* updated_at together and leaving zoom_user_id, zoom_email and created_at.
C13_TripleFromOneResponse ==
  /\ [](\A u \in Users : store[u].present => OneResponse(store[u]))
  /\ [][\A u \in Users :
          (store'[u] # store[u] /\ store'[u].present)
          => \E p \in Procs :
               /\ gv'[p].user = u
               /\ gv'[p] # gv[p]
               /\ LET td == gv'[p].token_data
                  IN /\ td.access_token - AccessTok(0) = td.refresh_token - RefreshTok(0)
                     /\ op'[p] = "gvat"
                        => /\ td = result[p].tokens
                           /\ td.expires_in = Last(log[p]).resp.body
                     /\ IF op'[p] = "store"
                        THEN store'[u] = NewRow(td, 1, 1, now)
                        ELSE /\ store[u].present
                             /\ store'[u] = WithTriple(store[u], td, now)
                             /\ store'[u].created_at = store[u].created_at
                             /\ store'[u].zoom_user_id = store[u].zoom_user_id
                             /\ store'[u].zoom_email = store[u].zoom_email]_vars

C13_Witness ==
  \E p, q \in Procs :
    /\ p # q
    /\ pc[p] = "done" /\ op[p] = "store" /\ gv[p].writeOk
    /\ GvRefreshSucceeded(q) /\ gv[q].writeOk /\ gv[q].wrote
    /\ gv[q].pre = LegacyCred
    /\ store[gv[q].user].created_at = gv[p].updatedAt
    /\ store[gv[q].user].access_token = gv[q].token_data.access_token
    /\ store[gv[q].user].access_token # gv[p].token_data.access_token

TokenCall(p) == op[p] \in {"exchange", "refresh"}

\* C21: a finished exchange_code_for_tokens or refresh_access_token call
\* made one wait_if_needed and one POST to /oauth/token and nothing else;
\* an answer with a status other than 200 (401 and 429 too) raised the error
\* with that status, no error code and the raw body; a 200 returned the
\* parsed token response; and such a call never sleeps a cool-down.
C21_TokenCallOnePost ==
  \A p \in Procs :
    TokenCall(p)
    => /\ pc[p] # "cooldown"
       /\ CountEv(log[p], "cool") = 0
       /\ CountEv(log[p], "http") <= 1
       /\ pc[p] = "done"
          => LET r == Last(log[p]).resp
             IN /\ log[p] = <<EvWait, EvHttp(req[p]), EvResp(r)>>
                /\ req[p].method = "POST" /\ req[p].endpoint = "/oauth/token"
                /\ (r # NetError /\ r.status # 200)
                   => result[p] = ZoomAPIError(r.status, "", RawText(r.body))
                /\ (r # NetError /\ r.status = 200)
                   => /\ result[p].kind = "ok"
                      /\ result[p].tokens.expires_in = r.body
                      /\ result[p].tokens.access_token = AccessTok(issued)

C21_Witness ==
  \E p \in Procs :
    /\ op[p] = "refresh" /\ pc[p] = "done"
    /\ Last(log[p]).resp # NetError
    /\ Last(log[p]).resp.status = 401
    /\ result[p] = ZoomAPIError(401, "", RawText(9))
    /\ CountEv(log[p], "http") = 1

\* C24 (as claimed): a token that get_valid_access_token returns without
\* refreshing is the access_token of the row on which the expiry check was
\* evaluated (the row read inside is_token_expired).
C24_ReturnsCheckedVersion ==
  \A p \in Procs :
    (GvDone(p) /\ ~gv[p].built /\ gv[p].read1 /\ gv[p].read2
     /\ result[p].kind = "ok")
    => result[p].val = gv[p].checked.access_token

\* C26 (as claimed): when get_valid_access_token returns a token it got by
\* refreshing, and it is the only caller, the row holds that access token
\* and the refresh token issued with it.
C26_ReturnedTokenIsStored ==
  \A p \in Procs :
    (GvRefreshSucceeded(p) /\ result[p].kind = "ok" /\ gv[p].pre.present)
    => /\ store[gv[p].user].present
       /\ store[gv[p].user].access_token = result[p].val
       /\ store[gv[p].user].refresh_token = gv[p].token_data.refresh_token

\* C27: a user's row comes into being only in a store_credentials step that
\* the store accepts: the update of a refresh that was under way when
\* delete_credentials completed changes nothing.
C27_UpdateDoesNotRecreate ==
  [][\A u \in Users :
       (~store[u].present /\ store'[u].present)
       => \E p \in Procs : /\ Idle(p)
                           /\ op'[p] = "store"
                           /\ calls'[p] = calls[p] + 1
                           /\ gv'[p].user = u
                           /\ gv'[p].writeOk]_vars

C27_Witness ==
  \E p, q \in Procs :
    /\ p # q
    /\ pc[p] = "done" /\ op[p] = "delete" /\ gv[p].writeOk /\ gv[p].pre.present
    /\ GvRefreshSucceeded(q) /\ gv[q].writeOk /\ ~gv[q].wrote
    /\ gv[q].pre.present
    /\ gv[q].user = gv[p].user
    /\ ~store[gv[q].user].present
    /\ result[q] = Ok(AccessTok(1))

\* C28: when the store fails on the read, is_token_expired returns true and
\* get_valid_access_token returns None at once, with no ZoomService, no
\* wait_if_needed, no HTTP request and no write, for a user with a stored
\* row as for one without.
C28_ReadFailureIsNoCredential ==
  \A p \in Procs :
    /\ (pc[p] = "done" /\ op[p] = "expired" /\ ~gv[p].read1)
       => result[p] = ReturnedBool(TRUE)
    /\ (op[p] = "gvat" /\ ~gv[p].read1)
       => /\ pc[p] = "done"
          /\ result[p] = ReturnedNone
          /\ log[p] = <<>>
          /\ ~gv[p].built
          /\ store[gv[p].user] = gv[p].pre

C28_Witness ==
  \E p \in Procs :
    /\ GvDone(p) /\ ~gv[p].read1
    /\ gv[p].pre.present
    /\ result[p] = ReturnedNone
    /\ store[gv[p].user].present

\* C30: a finished download_recording_file call made one wait_if_needed and
\* one GET and nothing else; an answer with a status other than 200 (401 and
\* 429 too) raised the error with that status and no error code; a 200
\* returned the content; and such a call never sleeps a cool-down.
C30_DownloadOneRequest ==
  \A p \in Procs :
    op[p] = "download"
    => /\ pc[p] # "cooldown"
       /\ CountEv(log[p], "cool") = 0
       /\ CountEv(log[p], "http") <= 1
       /\ pc[p] = "done"
          => LET r == Last(log[p]).resp
             IN /\ log[p] = <<EvWait, EvHttp(req[p]), EvResp(r)>>
                /\ (r # NetError /\ r.status # 200)
                   => /\ result[p].kind = "error"
                      /\ result[p].status = r.status
                      /\ result[p].code = ""
                /\ (r # NetError /\ r.status = 200) => result[p] = Ok(r.body)

C30_Witness ==
  \E p \in Procs :
    /\ op[p] = "download" /\ pc[p] = "done"
    /\ Last(log[p]).resp # NetError
    /\ Last(log[p]).resp.status = 429
    /\ result[p].kind = "error" /\ result[p].status = 429
    /\ CountEv(log[p], "http") = 1


\* --------------------------------------------------------------------- C29
AuthOrder == <<"exchange", "api", "store">>

IsPrefix(s, t) == Len(s) <= Len(t) /\ \A i \in 1..Len(s) : s[i] = t[i]

\* C29: handle_zoom_auth_callback calls exchange_code_for_tokens, then
\* get_user_info, then store_credentials, in that order; the credential row
\* is written only in the step after both provider calls succeeded, with the
\* tokens of the exchange, so a failure of either leaves the table as it
\* was; the handler reports success only when store_credentials returned
\* True, and a provider error is answered 400, anything else 500.
C29_AuthCallbackOrder ==
  /\ [](\A p \in Procs :
          route[p].handler = "auth"
          => /\ IsPrefix(route[p].made, AuthOrder)
             /\ route[p].status = 200
                => /\ route[p].made = AuthOrder
                   /\ route[p].cause = ReturnedBool(TRUE)
             /\ route[p].cause = ReturnedBool(FALSE) => route[p].status = 500
             /\ (RouteDone(p) /\ route[p].cause.kind = "error")
                => (route[p].status = 400 /\ Len(route[p].made) < 3)
             /\ (RouteDone(p) /\ route[p].cause.kind = "exception")
                => (route[p].status = 500 /\ Len(route[p].made) < 3))
  /\ [][\A p \in Procs :
          (route[p].handler = "auth" /\ (store' # store \/ rows' # rows))
          => /\ route[p].made = <<"exchange">>
             /\ route[p].tokens # NoTokenData
             /\ op[p] = "api" /\ result[p].kind = "ok"
             /\ route'[p].status = 200
             /\ \E u \in Users :
                  /\ store' = [store EXCEPT ![u] = NewRow(route[p].tokens, 1, 1, now)]
                  /\ rows'[u] = 1]_vars

\* The callback has connected the account: both provider calls succeeded and
\* the row holds the tokens of the exchange.
C29_Witness ==
  \E p \in Procs, u \in Users :
    /\ route[p].handler = "auth"
    /\ route[p].status = 200
    /\ route[p].made = AuthOrder
    /\ store[u].present
    /\ store[u].access_token = route[p].tokens.access_token
    /\ store[u].access_token # LegacyCred.access_token


\* --------------------------------------------------------------------- C25
\* The call of wait_if_needed by q was entered while p was suspended in the
\* sleep of its own call on the same limiter, and both calls have returned.
Overlapped(p, q) ==
  /\ p # q
  /\ svc[p] = svc[q]
  /\ waited[p].returned # 0 /\ waited[q].returned # 0
  /\ waited[p].entered < waited[p].returned
  /\ waited[p].entered <= waited[q].entered
  /\ waited[q].entered < waited[p].returned

\* C25 (as claimed): two calls of wait_if_needed on the same limiter that
\* overlap, the second entered while the first was suspended in its sleep,
\* return at least the minimum interval apart.
C25_OverlappingReturnsApart ==
  \A p \in Procs, q \in Procs :
    Overlapped(p, q)
    => AbsDiff(waited[p].returned, waited[q].returned) >= MinInterval


\* --------------------------------------------------------------------- C23
\* The character a percent-escape stands for, for the hexadecimal digits
\* that occur in an encoded segment.
HexDigits == {"2", "3", "B", "D", "F"}

Unescaped(h, l) ==
  CASE h = "2" /\ l = "F" -> "/"
    [] h = "2" /\ l = "B" -> "+"
    [] h = "3" /\ l = "D" -> "="
    [] h = "2" /\ l = "2" -> "quote"
    [] h = "2" /\ l = "3" -> "#"
    [] h = "2" /\ l = "D" -> "-"
    [] h = "3" /\ l = "2" -> "2"
    [] h = "3" /\ l = "3" -> "3"
    [] h = "3" /\ l = "B" -> ";"
    [] h = "3" /\ l = "F" -> "?"
    [] OTHER -> "non-ascii"

\* Percent-decoding: "%" followed by two hexadecimal digits is replaced by
\* the character they stand for; every other character is kept.
RECURSIVE PercentDecode(_)
PercentDecode(s) ==
  IF s = <<>> THEN <<>>
  ELSE IF Head(s) = "%" /\ Len(s) >= 3 /\ s[2] \in HexDigits /\ s[3] \in HexDigits
       THEN <<Unescaped(s[2], s[3])>> \o PercentDecode(SubSeq(s, 4, Len(s)))
       ELSE <<Head(s)>> \o PercentDecode(Tail(s))

HasChar(s, c) == \E i \in 1..Len(s) : s[i] = c

\* What holds of the encoding: the segment contains none of the three
\* characters, and decoding it gives back every id that has no "%".
EncodedHasNoReservedChar ==
  \A p \in Procs :
    calls[p] > 0
    => /\ ~HasChar(uuid[p].encoded_uuid, "/")
       /\ ~HasChar(uuid[p].encoded_uuid, "+")
       /\ ~HasChar(uuid[p].encoded_uuid, "=")
       /\ ~HasChar(uuid[p].meeting_uuid, "%")
          => PercentDecode(uuid[p].encoded_uuid) = uuid[p].meeting_uuid

\* C23 (as claimed): the path segment get_meeting_participants produces
\* contains no "/", "+" or "=", and percent-decoding it gives back the
\* meeting id, ids containing "%" included.
C23_EncodingRoundTrip ==
  \A p \in Procs :
    calls[p] > 0
    => /\ \A c \in {"/", "+", "="} : ~HasChar(uuid[p].encoded_uuid, c)
       /\ PercentDecode(uuid[p].encoded_uuid) = uuid[p].meeting_uuid


\* --------------------------------------------------------------------- C22
\* The answers a call has had that are not 429 (an exception of the HTTP
\* client included).
OtherAnswers(s) == CountEv(s, "resp") - CountResp(s, 429)

====
